---- MODULE Spec2Model ----
(***************************************************************************)
(* scripts/whitelist_ip.sh: an invocation parses its flags, resolves a     *)
(* region, a CIDR, a security group and a port, checks whether the ingress *)
(* rule exists and, if not, authorizes it.  Strings of the script are TLA+ *)
(* strings; a URL is a sequence of one-character strings so that the       *)
(* parameter expansions of lines 60-68 can be computed.  The output of an  *)
(* external command is a record [rc, words]: its exit status and the       *)
(* whitespace-separated words of its text output.                          *)
(***************************************************************************)
EXTENDS Integers, Sequences, FiniteSets, TLC

VARIABLES
  st,        \* st[i]: the shell variables, position and outcome of invocation i
  resp,      \* resp[i]: what the external commands answered in i's last step
  sgRules,   \* sgRules[g]: IpPermissions of security group g, as describe lists them
  sgAtStart  \* sgAtStart[i]: sgRules when invocation i was launched

vars == <<st, resp, sgRules, sgAtStart>>

\* ---------------------------------------------------------------- bounds
NInv == 2        \* invocations of the script
MaxPerms == 2    \* IpPermissions entries a group holds initially

Invs == 1..NInv
Groups == {"sg-1", "sg-2"}

\* ---------------------------------------------------------------- strings
RECURSIVE Join(_)
Join(cs) == IF cs = <<>> THEN "" ELSE Head(cs) \o Join(Tail(cs))

Digits == {"0", "1", "2", "3", "4", "5", "6", "7", "8", "9"}

\* index of the first occurrence of pat in cs at or after k; 0 when there is none
RECURSIVE FindFrom(_, _, _)
FindFrom(cs, pat, k) ==
  IF k + Len(pat) - 1 > Len(cs) THEN 0
  ELSE IF SubSeq(cs, k, k + Len(pat) - 1) = pat THEN k
  ELSE FindFrom(cs, pat, k + 1)

\* index of the last occurrence of the character c in cs; 0 when there is none
RECURSIVE FindLast(_, _, _)
FindLast(cs, c, k) ==
  IF k = 0 THEN 0 ELSE IF cs[k] = c THEN k ELSE FindLast(cs, c, k - 1)

\* ${url#*://} : drop the shortest prefix that ends in "://"
StripScheme(cs) ==
  LET k == FindFrom(cs, <<":", "/", "/">>, 1)
  IN  IF k = 0 THEN cs ELSE SubSeq(cs, k + 3, Len(cs))

\* ${hostport%%/*} : drop the longest suffix that starts with "/"
StripPath(cs) ==
  LET k == FindFrom(cs, <<"/">>, 1)
  IN  IF k = 0 THEN cs ELSE SubSeq(cs, 1, k - 1)

\* ${hostport%%:*} and ${hostport##*:}, or the whole as host when there is no ":"
UrlHost(hostport) ==
  LET k == FindFrom(hostport, <<":">>, 1)
  IN  IF k = 0 THEN hostport ELSE SubSeq(hostport, 1, k - 1)

UrlPort(hostport) ==
  LET k == FindLast(hostport, ":", Len(hostport))
  IN  IF k = 0 THEN <<>> ELSE SubSeq(hostport, k + 1, Len(hostport))

\* cs as a sequence of its "."-separated fields
RECURSIVE SplitDots(_, _)
SplitDots(cs, cur) ==
  IF cs = <<>> THEN <<cur>>
  ELSE IF Head(cs) = "." THEN <<cur>> \o SplitDots(Tail(cs), <<>>)
  ELSE SplitDots(Tail(cs), Append(cur, Head(cs)))

\* [[ "$url_host" =~ ^([0-9]{1,3}\.){3}[0-9]{1,3}$ ]]
IsDottedQuad(cs) ==
  LET fs == SplitDots(cs, <<>>)
  IN  /\ Len(fs) = 4
      /\ \A k \in 1..4 : /\ Len(fs[k]) \in 1..3
                         /\ \A j \in 1..Len(fs[k]) : fs[k][j] \in Digits

\* ---------------------------------------------------------------- exits
Running == 0 - 1

Die(s, code, msg, withUsage) ==
  [s EXCEPT !.pc = "done", !.exit = code, !.out = msg, !.usage = withUsage]

\* set -e / pipefail: a failing command ends the script with that status
Errexit(s, rc) == [Die(s, rc, <<>>, FALSE) EXCEPT !.aborted = TRUE]

Called(s, cmds) == [s EXCEPT !.log = @ \cup cmds]

\* ---------------------------------------------------------------- lines 29-57
Blank ==
  [pc |-> "idle", argv |-> <<>>, ip |-> "", cidr |-> "", target_ip |-> "", url |-> <<>>,
   port |-> "", protocol |-> "tcp", cluster |-> "", service |-> "", sg_id |-> "",
   region |-> "", description |-> "codex-whitelist",
   exit |-> Running, out |-> <<>>, usage |-> FALSE, aborted |-> FALSE,
   log |-> {}, muts |-> 0]

ValueFlags ==
  {"--ip", "--cidr", "--target-ip", "--url", "--port", "--protocol", "--cluster",
   "--service", "--sg", "--region", "--description"}

SetFlag(s, flag, v) ==
  CASE flag = "--ip"          -> [s EXCEPT !.ip = v]
    [] flag = "--cidr"        -> [s EXCEPT !.cidr = v]
    [] flag = "--target-ip"   -> [s EXCEPT !.target_ip = v]
    [] flag = "--url"         -> [s EXCEPT !.url = v]
    [] flag = "--port"        -> [s EXCEPT !.port = v]
    [] flag = "--protocol"    -> [s EXCEPT !.protocol = v]
    [] flag = "--cluster"     -> [s EXCEPT !.cluster = v]
    [] flag = "--service"     -> [s EXCEPT !.service = v]
    [] flag = "--sg"          -> [s EXCEPT !.sg_id = v]
    [] flag = "--region"      -> [s EXCEPT !.region = v]
    [] flag = "--description" -> [s EXCEPT !.description = v]

\* the status bash ends with when set -u meets the unset "$2"
UnboundExit == 1

RECURSIVE ParseArgs(_, _)
ParseArgs(argv, s) ==
  IF argv = <<>> THEN [s EXCEPT !.pc = "url"]
  ELSE IF Head(argv) \in ValueFlags
       THEN IF Len(argv) < 2
            THEN [Die(s, UnboundExit, <<"$2", ":", "unbound", "variable">>, FALSE)
                    EXCEPT !.aborted = TRUE]
            ELSE ParseArgs(SubSeq(argv, 3, Len(argv)), SetFlag(s, argv[1], argv[2]))
  ELSE IF Head(argv) \in {"-h", "--help"} THEN Die(s, 0, <<>>, TRUE)
  ELSE Die(s, 2, <<"Unknown", "arg", ":", Head(argv)>>, TRUE)

\* ---------------------------------------------------------------- lines 59-82
\* the port of the URL replaces the port given
UrlBlockUrlWins(s, dns) ==
  IF s.url = <<>> THEN [s EXCEPT !.pc = "region"]
  ELSE
    LET hostport == StripPath(StripScheme(s.url))
        url_host == Join(UrlHost(hostport))
        url_port == Join(UrlPort(hostport))
        s1 == IF url_port # "" THEN [s EXCEPT !.port = url_port] ELSE s
    IN  IF s1.target_ip = "" /\ url_host # ""
        THEN IF IsDottedQuad(UrlHost(hostport))
             THEN [s1 EXCEPT !.target_ip = url_host, !.pc = "region"]
             ELSE IF dns.rc # 0 THEN Errexit(Called(s1, {"getent"}), dns.rc)
             ELSE IF dns.words # <<>>
                  THEN [Called(s1, {"getent"}) EXCEPT !.target_ip = dns.words[1],
                                                      !.pc = "region"]
                  ELSE [Called(s1, {"getent"}) EXCEPT !.pc = "region"]
        ELSE [s1 EXCEPT !.pc = "region"]

UrlBlock(s, dns) ==
  IF s.url = <<>> THEN [s EXCEPT !.pc = "region"]
  ELSE
    LET hostport == StripPath(StripScheme(s.url))
        url_host == Join(UrlHost(hostport))
        url_port == Join(UrlPort(hostport))
        s1 == IF s.port = "" /\ url_port # "" THEN [s EXCEPT !.port = url_port] ELSE s
    IN  IF s1.target_ip = "" /\ url_host # ""
        THEN IF IsDottedQuad(UrlHost(hostport))
             THEN [s1 EXCEPT !.target_ip = url_host, !.pc = "region"]
             ELSE IF dns.rc # 0 THEN Errexit(Called(s1, {"getent"}), dns.rc)
             ELSE IF dns.words # <<>>
                  THEN [Called(s1, {"getent"}) EXCEPT !.target_ip = dns.words[1],
                                                      !.pc = "region"]
                  ELSE [Called(s1, {"getent"}) EXCEPT !.pc = "region"]
        ELSE [s1 EXCEPT !.pc = "region"]

\* ---------------------------------------------------------------- lines 84-117
Ok(words) == [rc |-> 0, words |-> words]
Failed(rc) == [rc |-> rc, words |-> <<>>]

\* [[ -n "$text" && "$text" != "None" ]]
HasValue(words) == words # <<>> /\ words # <<"None">>

\* the for loop of lines 90-98 over the words of regions_text
RECURSIVE ScanRegions(_, _, _)
ScanRegions(regions, eni, acc) ==
  IF regions = <<>> THEN acc
  ELSE LET e == eni[Head(regions)]
       IN  IF e.rc # 0 THEN [acc EXCEPT !.rc = e.rc]
           ELSE ScanRegions(Tail(regions), eni,
                  IF HasValue(e.words)
                  THEN [acc EXCEPT !.match_region = Head(regions),
                                   !.match_count = @ + 1]
                  ELSE acc)

MsgMultiRegion(ip) ==
  <<"Public", "IP", ip, "found", "in", "multiple", "regions", ".",
    "Use", "--region", "or", "--sg", ".">>

MsgRegionNotSet ==
  <<"Region", "not", "set", ".", "Use", "--region", ",", "--url", ",", "or", "set",
    "AWS_REGION", "/", "AWS_DEFAULT_REGION", ".">>

\* ${AWS_REGION:-${AWS_DEFAULT_REGION:-}}
EnvRegion(r) == IF r.AWS_REGION # "" THEN r.AWS_REGION ELSE r.AWS_DEFAULT_REGION

\* lines 106-117, entered with the region the scan left
RegionFallback(s, r) ==
  LET s1 == IF s.region = "" THEN [Called(s, {"env"}) EXCEPT !.region = EnvRegion(r)]
            ELSE s
  IN  IF s1.region # "" THEN [s1 EXCEPT !.pc = "cidr"]
      ELSE IF r.cfg.rc # 0 THEN Errexit(Called(s1, {"configure-get"}), r.cfg.rc)
      ELSE IF r.cfg.words = <<>>
           THEN Die(Called(s1, {"configure-get"}), 2, MsgRegionNotSet, FALSE)
           ELSE [Called(s1, {"configure-get"}) EXCEPT !.region = r.cfg.words[1],
                                                     !.pc = "cidr"]

RegionBlock(s, r) ==
  IF s.region # "" THEN [s EXCEPT !.pc = "cidr"]
  ELSE IF s.target_ip = "" THEN RegionFallback(s, r)
  ELSE IF r.regions.rc # 0 THEN Errexit(Called(s, {"describe-regions"}), r.regions.rc)
  ELSE
    LET s1 == Called(s, {"describe-regions"} \cup
                        (IF r.regions.words # <<>> THEN {"eni-scan"} ELSE {}))
        sc == ScanRegions(r.regions.words, r.eni,
                          [rc |-> 0, match_region |-> "", match_count |-> 0])
    IN  IF sc.rc # 0 THEN Errexit(s1, sc.rc)
        ELSE IF sc.match_count = 1
             THEN RegionFallback([s1 EXCEPT !.region = sc.match_region], r)
        ELSE IF sc.match_count > 1 THEN Die(s1, 2, MsgMultiRegion(s.target_ip), FALSE)
        ELSE RegionFallback(s1, r)

\* ---------------------------------------------------------------- lines 119-128
MsgNoIp == <<"Failed", "to", "determine", "IP", ".", "Use", "--ip", "or", "--cidr", ".">>

\* curl -s ... | tr -d '[:space:]' : the words of the body with the blanks removed
\* --ip tested before --cidr
CidrBlockIpFirst(s, curl) ==
  IF s.ip # "" THEN [s EXCEPT !.cidr = s.ip \o "/32", !.pc = "sgip"]
  ELSE IF s.cidr # "" THEN [s EXCEPT !.pc = "sgip"]
  ELSE IF curl.rc # 0 THEN Errexit(Called(s, {"curl"}), curl.rc)
  ELSE LET s1 == [Called(s, {"curl"}) EXCEPT !.ip = Join(curl.words)]
       IN  IF s1.ip = "" THEN Die(s1, 2, MsgNoIp, FALSE)
           ELSE [s1 EXCEPT !.cidr = s1.ip \o "/32", !.pc = "sgip"]

CidrBlock(s, curl) ==
  IF s.cidr # "" THEN [s EXCEPT !.pc = "sgip"]
  ELSE IF s.ip # "" THEN [s EXCEPT !.cidr = s.ip \o "/32", !.pc = "sgip"]
  ELSE IF curl.rc # 0 THEN Errexit(Called(s, {"curl"}), curl.rc)
  ELSE LET s1 == [Called(s, {"curl"}) EXCEPT !.ip = Join(curl.words)]
       IN  IF s1.ip = "" THEN Die(s1, 2, MsgNoIp, FALSE)
           ELSE [s1 EXCEPT !.cidr = s1.ip \o "/32", !.pc = "sgip"]

\* ---------------------------------------------------------------- lines 132-146
MsgNoSgForIp(ip) ==
  <<"No", "security", "group", "found", "for", "public", "IP", ip, ".",
    "Use", "--sg", ".">>
MsgMultiSgForIp(ip) ==
  <<"Multiple", "security", "groups", "found", "for", "public", "IP", ip, ".",
    "Use", "--sg", ".">>

\* an empty answer goes on to the cluster discovery
SgByIpBlockFallThrough(s, eni) ==
  IF ~(s.sg_id = "" /\ s.target_ip # "") THEN [s EXCEPT !.pc = "ecs"]
  ELSE IF eni.rc # 0 THEN Errexit(Called(s, {"eni-groups"}), eni.rc)
  ELSE LET s1 == Called(s, {"eni-groups"})
       IN  IF ~HasValue(eni.words) THEN [s1 EXCEPT !.pc = "ecs"]
           ELSE IF Len(eni.words) # 1
                THEN Die(s1, 2, MsgMultiSgForIp(s.target_ip), FALSE)
           ELSE [s1 EXCEPT !.sg_id = eni.words[1], !.pc = "ecs"]

SgByIpBlock(s, eni) ==
  IF ~(s.sg_id = "" /\ s.target_ip # "") THEN [s EXCEPT !.pc = "ecs"]
  ELSE IF eni.rc # 0 THEN Errexit(Called(s, {"eni-groups"}), eni.rc)
  ELSE LET s1 == Called(s, {"eni-groups"})
       IN  IF ~HasValue(eni.words) THEN Die(s1, 2, MsgNoSgForIp(s.target_ip), FALSE)
           ELSE IF Len(eni.words) # 1
                THEN Die(s1, 2, MsgMultiSgForIp(s.target_ip), FALSE)
           ELSE [s1 EXCEPT !.sg_id = eni.words[1], !.pc = "ecs"]

\* ---------------------------------------------------------------- lines 148-188
MsgNoClusters == <<"No", "ECS", "clusters", "found", ".", "Use", "--cluster", "or", "--sg", ".">>
MsgMultiClusters ==
  <<"Multiple", "ECS", "clusters", "found", ".", "Use", "--cluster", "to", "select", "one", ".">>
MsgNoServices == <<"No", "ECS", "services", "found", ".", "Use", "--service", "or", "--sg", ".">>
MsgMultiServices ==
  <<"Multiple", "ECS", "services", "found", ".", "Use", "--service", "to", "select", "one", ".">>
MsgNoSgOnService ==
  <<"No", "security", "group", "found", "on", "ECS", "service", ".", "Use", "--sg", ".">>
MsgMultiSg ==
  <<"Multiple", "security", "groups", "found", ".", "Use", "--sg", "to", "select", "one", ".">>

\* lines 149-161
PickCluster(s, r) ==
  IF s.cluster # "" THEN s
  ELSE IF r.clusters.rc # 0 THEN Errexit(Called(s, {"list-clusters"}), r.clusters.rc)
  ELSE LET s1 == Called(s, {"list-clusters"})
       IN  IF ~HasValue(r.clusters.words) THEN Die(s1, 2, MsgNoClusters, FALSE)
           ELSE IF Len(r.clusters.words) # 1 THEN Die(s1, 2, MsgMultiClusters, FALSE)
           ELSE [s1 EXCEPT !.cluster = r.clusters.words[1]]

\* several services: the first is taken
PickServiceFirst(s, r) ==
  IF s.service # "" THEN s
  ELSE IF r.services.rc # 0 THEN Errexit(Called(s, {"list-services"}), r.services.rc)
  ELSE LET s1 == Called(s, {"list-services"})
       IN  IF ~HasValue(r.services.words) THEN Die(s1, 2, MsgNoServices, FALSE)
           ELSE [s1 EXCEPT !.service = r.services.words[1]]

\* lines 163-175
PickService(s, r) ==
  IF s.service # "" THEN s
  ELSE IF r.services.rc # 0 THEN Errexit(Called(s, {"list-services"}), r.services.rc)
  ELSE LET s1 == Called(s, {"list-services"})
       IN  IF ~HasValue(r.services.words) THEN Die(s1, 2, MsgNoServices, FALSE)
           ELSE IF Len(r.services.words) # 1 THEN Die(s1, 2, MsgMultiServices, FALSE)
           ELSE [s1 EXCEPT !.service = r.services.words[1]]

\* lines 177-187
PickServiceSg(s, r) ==
  IF r.groups.rc # 0 THEN Errexit(Called(s, {"describe-services"}), r.groups.rc)
  ELSE LET s1 == Called(s, {"describe-services"})
       IN  IF ~HasValue(r.groups.words) THEN Die(s1, 2, MsgNoSgOnService, FALSE)
           ELSE IF Len(r.groups.words) # 1 THEN Die(s1, 2, MsgMultiSg, FALSE)
           ELSE [s1 EXCEPT !.sg_id = r.groups.words[1], !.pc = "port"]

EcsBlock(s, r) ==
  IF s.sg_id # "" THEN [s EXCEPT !.pc = "port"]
  ELSE LET s1 == PickCluster(s, r)
       IN  IF s1.pc = "done" THEN s1
           ELSE LET s2 == PickService(s1, r)
                IN  IF s2.pc = "done" THEN s2 ELSE PickServiceSg(s2, r)

\* ---------------------------------------------------------------- lines 190-204
\* IpPermissions[?IpProtocol=='proto' && FromPort==ToPort && length(IpRanges)>`0`].FromPort
RECURSIVE PortsText(_, _)
PortsText(perms, proto) ==
  IF perms = <<>> THEN <<>>
  ELSE LET e == Head(perms)
       IN  (IF e.IpProtocol = proto /\ e.FromPort = e.ToPort /\ e.IpRanges # {}
            THEN <<e.FromPort>> ELSE <<>>) \o PortsText(Tail(perms), proto)

MsgNoPorts(proto) ==
  <<"No", "matching", proto, "rules", "found", ".", "Use", "--port", ".">>
MsgMultiPorts(proto) ==
  <<"Multiple", proto, "ports", "found", ".", "Use", "--port", ".">>

PortBlock(s, d) ==
  IF s.port # "" THEN [s EXCEPT !.pc = "check"]
  ELSE IF d.rc # 0 THEN Errexit(Called(s, {"sg-ports"}), d.rc)
  ELSE LET s1 == Called(s, {"sg-ports"})
       IN  IF ~HasValue(d.words) THEN Die(s1, 2, MsgNoPorts(s.protocol), FALSE)
           ELSE IF Len(d.words) # 1 THEN Die(s1, 2, MsgMultiPorts(s.protocol), FALSE)
           ELSE [s1 EXCEPT !.port = d.words[1], !.pc = "check"]

\* ---------------------------------------------------------------- lines 206-213
\* IpPermissions[?IpProtocol=='proto' && FromPort==`port` && ToPort==`port`]
\*   .IpRanges[?CidrIp=='cidr'].CidrIp
\* the query with the port conditions left out
RECURSIVE ExistingTextAnyPort(_, _, _, _)
ExistingTextAnyPort(perms, proto, port, cidr) ==
  IF perms = <<>> THEN <<>>
  ELSE LET e == Head(perms)
       IN  (IF e.IpProtocol = proto /\ \E r \in e.IpRanges : r.CidrIp = cidr
            THEN <<cidr>> ELSE <<>>) \o ExistingTextAnyPort(Tail(perms), proto, port, cidr)

RECURSIVE ExistingText(_, _, _, _)
ExistingText(perms, proto, port, cidr) ==
  IF perms = <<>> THEN <<>>
  ELSE LET e == Head(perms)
       IN  (IF /\ e.IpProtocol = proto /\ e.FromPort = port /\ e.ToPort = port
               /\ \E r \in e.IpRanges : r.CidrIp = cidr
            THEN <<cidr>> ELSE <<>>) \o ExistingText(Tail(perms), proto, port, cidr)

MsgAlready(s) ==
  <<s.cidr, "already", "allowed", "on", s.protocol, "/", s.port, "in", s.sg_id, ".">>

\* the test of line 210 inverted
CheckBlockInverted(s, d) ==
  IF d.rc # 0 THEN Errexit(Called(s, {"sg-existing"}), d.rc)
  ELSE IF ~HasValue(d.words) THEN Die(Called(s, {"sg-existing"}), 0, MsgAlready(s), FALSE)
  ELSE [Called(s, {"sg-existing"}) EXCEPT !.pc = "auth"]

CheckBlock(s, d) ==
  IF d.rc # 0 THEN Errexit(Called(s, {"sg-existing"}), d.rc)
  ELSE IF HasValue(d.words) THEN Die(Called(s, {"sg-existing"}), 0, MsgAlready(s), FALSE)
  ELSE [Called(s, {"sg-existing"}) EXCEPT !.pc = "auth"]

\* ---------------------------------------------------------------- lines 215-218
MsgAdded(s) ==
  <<"Added", s.cidr, "to", s.sg_id, "on", s.protocol, "/", s.port,
    "(", "region", s.region, ")", ".">>

HasKey(e, proto, port) == e.IpProtocol = proto /\ e.FromPort = port /\ e.ToPort = port

\* the control plane's side of authorize-security-group-ingress: a rule that is
\* already there is refused (InvalidPermission.Duplicate), a new range joins the
\* entry of its protocol and port, and a new protocol and port get a new entry
AuthorizeIngress(perms, proto, port, cidr, desc) ==
  LET range == [CidrIp |-> cidr, Description |-> desc]
      hits == {k \in 1..Len(perms) : HasKey(perms[k], proto, port)}
  IN  IF \E k \in hits : \E r \in perms[k].IpRanges : r.CidrIp = cidr
      THEN [rc |-> 254, perms |-> perms]
      ELSE IF hits # {}
           THEN LET k == CHOOSE m \in hits : \A n \in hits : m <= n
                IN  [rc |-> 0,
                     perms |-> [perms EXCEPT ![k].IpRanges = @ \cup {range}]]
      ELSE [rc |-> 0,
            perms |-> Append(perms, [IpProtocol |-> proto, FromPort |-> port,
                                     ToPort |-> port, IpRanges |-> {range}])]

\* a failed call is tried again
AuthBlockRetry(s, rc) ==
  LET s1 == [Called(s, {"authorize"}) EXCEPT !.muts = @ + 1]
  IN  IF rc # 0 THEN s1 ELSE Die(s1, 0, MsgAdded(s), FALSE)

AuthBlock(s, rc) ==
  LET s1 == [Called(s, {"authorize"}) EXCEPT !.muts = @ + 1]
  IN  IF rc # 0 THEN Errexit(s1, rc) ELSE Die(s1, 0, MsgAdded(s), FALSE)

\* ---------------------------------------------------------------- inputs
\* http://43.216.215.179:8080/
UrlQuad ==
  <<"h", "t", "t", "p", ":", "/", "/", "4", "3", ".", "2", "1", "6", ".", "2", "1",
    "5", ".", "1", "7", "9", ":", "8", "0", "8", "0", "/">>
\* https://bot.example/ui
UrlName ==
  <<"h", "t", "t", "p", "s", ":", "/", "/", "b", "o", "t", ".", "e", "x", "a", "m",
    "p", "l", "e", "/", "u", "i">>
\* bot.example:9090
UrlBare ==
  <<"b", "o", "t", ".", "e", "x", "a", "m", "p", "l", "e", ":", "9", "0", "9", "0">>

Opt(flag, values) == {<<>>} \cup {<<flag, v>> : v \in values}

\* every combination of --ip and --cidr, the rest given
TargetArgs ==
  {a \o b \o <<"--region", "r0", "--sg", "sg-1", "--port", "443">> :
     a \in Opt("--ip", {"9.9.9.9"}), b \in Opt("--cidr", {"10.0.0.0/8"})}

\* every combination of --url, --port, --target-ip, --sg and --region
UrlArgs ==
  {a \o b \o c \o d \o e \o <<"--cidr", "10.0.0.0/8">> :
     a \in Opt("--url", {UrlQuad, UrlName, UrlBare}), b \in Opt("--port", {"443"}),
     c \in Opt("--target-ip", {"5.5.5.5"}), d \in Opt("--sg", {"sg-1"}),
     e \in Opt("--region", {"r0"})}

\* every combination of --cluster, --service, --sg and --target-ip
EcsArgs ==
  {a \o b \o c \o d \o <<"--region", "r0", "--cidr", "10.0.0.0/8", "--port", "443">> :
     a \in Opt("--cluster", {"cl-0"}), b \in Opt("--service", {"svc-0"}),
     c \in Opt("--sg", {"sg-1"}), d \in Opt("--target-ip", {"5.5.5.5"})}

\* --protocol, with and without --port
ProtocolArgs ==
  {<<"--protocol", "udp", "--region", "r0", "--sg", "sg-1", "--ip", "9.9.9.9">> \o a :
     a \in Opt("--port", {"53"})}

\* command lines the parser does not accept: what precedes the offending argument,
\* then an unknown argument, a flag without its value, or a request for help
BadPrefixes == {<<>>, <<"--port", "443">>, <<"--sg", "sg-1", "--region", "r0">>}
UnknownTails == {<<"--bogus">>, <<"--bogus", "--help">>, <<"443">>}
NoValueTails == {<<"--ip">>, <<"--port">>, <<"--sg">>}
HelpTails == {<<"--help">>, <<"-h">>, <<"--help", "--bogus">>}
BadArgs ==
  {a \o b : a \in BadPrefixes, b \in UnknownTails \cup NoValueTails \cup HelpTails}

ArgLists == TargetArgs \cup UrlArgs \cup EcsArgs \cup ProtocolArgs \cup BadArgs

\* command lines that give the region and the group: they differ in how the
\* address and the port are given
DirectArgs ==
  {<<"--region", "r0", "--sg", "sg-1">> \o a \o b :
     a \in {<<"--cidr", "9.9.9.9/32">>, <<"--ip", "9.9.9.9">>},
     b \in Opt("--port", {"8080"})}
  \cup {<<"--region", "r0", "--sg", "sg-1", "--cidr", "10.0.0.0/8", "--port", "8080">>}

DnsAnswers == {Ok(<<"6.6.6.6", "bot.example">>), Ok(<<>>), Failed(2)}
CurlAnswers == {Ok(<<"7.7.7.7">>), Ok(<<>>), Failed(6)}
RegionNames == {"r1", "r2"}
RegionsAnswers == {Ok(<<"r1", "r2">>), Failed(255)}
EniScanAnswers ==
  [RegionNames -> {Ok(<<>>), Ok(<<"eni-1">>)}] \cup {[r \in RegionNames |-> Failed(255)]}
ConfigAnswers == {Ok(<<"r-cfg">>), Ok(<<>>), Failed(1)}
GroupAnswers ==
  {Ok(<<>>), Ok(<<"None">>), Ok(<<"sg-1">>), Ok(<<"sg-2">>), Ok(<<"sg-1", "sg-2">>),
   Failed(255)}
ClusterAnswers == {Ok(<<>>), Ok(<<"cl-1">>), Ok(<<"cl-1", "cl-2">>), Failed(255)}
ServiceAnswers == {Ok(<<>>), Ok(<<"svc-1">>), Ok(<<"svc-1", "svc-2">>), Failed(255)}

RegionInputs ==
  [regions : RegionsAnswers, eni : EniScanAnswers,
   AWS_REGION : {"", "r-env"}, AWS_DEFAULT_REGION : {"", "r-def"}, cfg : ConfigAnswers]

EcsInputs == [clusters : ClusterAnswers, services : ServiceAnswers, groups : GroupAnswers]

\* describe-security-groups: the query's words, or a failure of the call
Describe(words) == {Ok(words), Failed(255)}

\* the command that reads each input
FieldTag ==
  [dns |-> "getent", regions |-> "describe-regions", eni |-> "eni-scan",
   AWS_REGION |-> "env", AWS_DEFAULT_REGION |-> "env", cfg |-> "configure-get",
   curl |-> "curl", enisg |-> "eni-groups", clusters |-> "list-clusters",
   services |-> "list-services", groups |-> "describe-services",
   ports |-> "sg-ports", existing |-> "sg-existing", authorize |-> "authorize"]

NoAnswer == [none |-> TRUE]

\* the inputs r that the step from s to t read
Seen(r, s, t) ==
  [f \in DOMAIN r |-> IF FieldTag[f] \in t.log \ s.log THEN r[f] ELSE NoAnswer]

\* the entries a group may hold at the start
Range(c) == [CidrIp |-> c, Description |-> ""]
PermUniverse ==
  <<[IpProtocol |-> "tcp", FromPort |-> "8080", ToPort |-> "8080",
     IpRanges |-> {Range("9.9.9.9/32")}],
    [IpProtocol |-> "tcp", FromPort |-> "8080", ToPort |-> "8080",
     IpRanges |-> {Range("172.16.0.0/12")}],
    [IpProtocol |-> "tcp", FromPort |-> "443", ToPort |-> "443",
     IpRanges |-> {Range("10.0.0.0/8"), Range("172.16.0.0/12")}],
    [IpProtocol |-> "udp", FromPort |-> "53", ToPort |-> "53",
     IpRanges |-> {Range("172.16.0.0/12")}],
    [IpProtocol |-> "tcp", FromPort |-> "80", ToPort |-> "8080",
     IpRanges |-> {Range("9.9.9.9/32")}],
    [IpProtocol |-> "tcp", FromPort |-> "22", ToPort |-> "22", IpRanges |-> {}]>>

\* the lists of at most n entries of PermUniverse, in its order, from entry k on
RECURSIVE PermLists(_, _)
PermLists(k, n) ==
  IF k > Len(PermUniverse) \/ n = 0 THEN {<<>>}
  ELSE PermLists(k + 1, n) \cup {<<PermUniverse[k]>> \o l : l \in PermLists(k + 1, n - 1)}

\* ---------------------------------------------------------------- the run
Init ==
  /\ st = [i \in Invs |-> Blank]
  /\ resp = [i \in Invs |-> NoAnswer]
  /\ \E p \in PermLists(1, MaxPerms) : sgRules = [g \in Groups |-> p]
  /\ sgAtStart = [i \in Invs |-> sgRules]

Step(i, s, r) ==
  /\ st' = [st EXCEPT ![i] = s]
  /\ resp' = [resp EXCEPT ![i] = IF r = NoAnswer THEN r ELSE Seen(r, st[i], s)]

\* lines 29-57
Start(i, argv) ==
  /\ st[i].pc = "idle"
  /\ Step(i, ParseArgs(argv, [Blank EXCEPT !.argv = argv]), NoAnswer)
  /\ sgAtStart' = [sgAtStart EXCEPT ![i] = sgRules]
  /\ UNCHANGED sgRules

\* lines 59-82
Url(i) ==
  /\ st[i].pc = "url"
  /\ \E dns \in DnsAnswers : Step(i, UrlBlock(st[i], dns), [dns |-> dns])
  /\ UNCHANGED <<sgRules, sgAtStart>>

\* lines 84-117
Region(i) ==
  /\ st[i].pc = "region"
  /\ \E r \in RegionInputs : Step(i, RegionBlock(st[i], r), r)
  /\ UNCHANGED <<sgRules, sgAtStart>>

\* lines 119-128
Cidr(i) ==
  /\ st[i].pc = "cidr"
  /\ \E c \in CurlAnswers : Step(i, CidrBlock(st[i], c), [curl |-> c])
  /\ UNCHANGED <<sgRules, sgAtStart>>

\* lines 132-146
SgByIp(i) ==
  /\ st[i].pc = "sgip"
  /\ \E e \in GroupAnswers : Step(i, SgByIpBlock(st[i], e), [enisg |-> e])
  /\ UNCHANGED <<sgRules, sgAtStart>>

\* lines 148-188
Ecs(i) ==
  /\ st[i].pc = "ecs"
  /\ \E r \in EcsInputs : Step(i, EcsBlock(st[i], r), r)
  /\ UNCHANGED <<sgRules, sgAtStart>>

\* lines 190-204
Port(i) ==
  /\ st[i].pc = "port"
  /\ \E d \in Describe(PortsText(sgRules[st[i].sg_id], st[i].protocol)) :
       Step(i, PortBlock(st[i], d), [ports |-> d])
  /\ UNCHANGED <<sgRules, sgAtStart>>

\* lines 206-213
Check(i) ==
  /\ st[i].pc = "check"
  /\ \E d \in Describe(ExistingText(sgRules[st[i].sg_id], st[i].protocol,
                                    st[i].port, st[i].cidr)) :
       Step(i, CheckBlock(st[i], d), [existing |-> d])
  /\ UNCHANGED <<sgRules, sgAtStart>>

\* lines 215-218
Authorize(i) ==
  /\ st[i].pc = "auth"
  /\ LET s == st[i]
         a == AuthorizeIngress(sgRules[s.sg_id], s.protocol, s.port, s.cidr,
                               s.description)
     IN  \E rc \in {a.rc, 255} :
           /\ Step(i, AuthBlock(s, rc), [authorize |-> rc])
           /\ sgRules' = IF rc = 0 THEN [sgRules EXCEPT ![s.sg_id] = a.perms]
                         ELSE sgRules
  /\ UNCHANGED sgAtStart

\* lines 59-188 for a command line that gives region, group and address: no
\* external command is read
Prologue(s) ==
  LET a == IF s.pc = "url" THEN UrlBlock(s, NoAnswer) ELSE s
      b == IF a.pc = "region" THEN RegionBlock(a, NoAnswer) ELSE a
      c == IF b.pc = "cidr" THEN CidrBlock(b, NoAnswer) ELSE b
      d == IF c.pc = "sgip" THEN SgByIpBlock(c, NoAnswer) ELSE c
  IN  IF d.pc = "ecs" THEN EcsBlock(d, NoAnswer) ELSE d

\* lines 29-188 in one step: they read and write nothing the invocations share
Launch(i) ==
  /\ st[i].pc = "idle"
  /\ \E argv \in DirectArgs :
       Step(i, Prologue(ParseArgs(argv, [Blank EXCEPT !.argv = argv])), NoAnswer)
  /\ sgAtStart' = [sgAtStart EXCEPT ![i] = sgRules]
  /\ UNCHANGED sgRules

\* one invocation, any command line
Next ==
  \E i \in {1} :
    \/ \E argv \in ArgLists : Start(i, argv)
    \/ Url(i) \/ Region(i) \/ Cidr(i) \/ SgByIp(i) \/ Ecs(i)
    \/ Port(i) \/ Check(i) \/ Authorize(i)

Spec == Init /\ [][Next]_vars

\* the invocations one after the other
InTurn(i) == \A j \in Invs : j < i => st[j].pc = "done"

NextSeq ==
  \E i \in Invs :
    \/ InTurn(i) /\ Launch(i)
    \/ InTurn(i) /\ Port(i)
    \/ InTurn(i) /\ Check(i)
    \/ InTurn(i) /\ Authorize(i)

SpecSeq == Init /\ [][NextSeq]_vars

\* the invocations side by side: nothing orders their steps
NextConc == \E i \in Invs : Launch(i) \/ Port(i) \/ Check(i) \/ Authorize(i)

SpecConc == Init /\ [][NextConc]_vars

\* ---------------------------------------------------------------- properties
Mentions(msg, w) == \E k \in DOMAIN msg : msg[k] = w

Tuple(s) == <<s.sg_id, s.protocol, s.port, s.cidr>>

\* the rules of perms that allow cidr on exactly proto/port
RulesFor(perms, proto, port, cidr) ==
  UNION {{<<k, r>> : r \in {x \in perms[k].IpRanges : x.CidrIp = cidr}} :
           k \in {n \in DOMAIN perms : /\ perms[n].IpProtocol = proto
                                       /\ perms[n].FromPort = port
                                       /\ perms[n].ToPort = port}}

\* the run reached its existence check and no external command failed under it
Completed(s) == s.pc = "done" /\ ~s.aborted /\ "sg-existing" \in s.log

C2_MutationOnce ==
  [][\A i \in Invs :
       /\ st'[i].muts <= 1
       /\ st'[i].muts > st[i].muts =>
            /\ st[i].pc = "auth"
            /\ st[i].region # "" /\ st[i].cidr # "" /\ st[i].sg_id # ""
            /\ st[i].port # ""
            /\ "existing" \in DOMAIN resp[i]
            /\ resp[i].existing.rc = 0 /\ ~HasValue(resp[i].existing.words)
       /\ sgRules' # sgRules => \E k \in Invs : st'[k].muts > st[k].muts
       /\ (st'[i].pc = "done" /\ st'[i].exit = 2) => sgRules' = sgAtStart'[i]]_vars

\* a run that added its rule
C2_Witness ==
  \E i \in Invs : /\ st[i].pc = "done" /\ st[i].exit = 0 /\ st[i].muts = 1
                  /\ sgRules # sgAtStart[i]

\* C3: the step of lines 119-128 leaves --cidr as it was given, also next to
\* --ip; without --cidr it leaves --ip followed by "/32"; without both it leaves
\* the detected address followed by "/32", and when the detection answers with
\* nothing the run ends with exit 2 and no CIDR.
C3_TargetResolver ==
  [][\A i \in Invs :
       LET s == st[i]
           t == st'[i]
           c == resp'[i].curl
       IN  (s.pc = "cidr" /\ t.pc # "cidr") =>
             /\ s.cidr # "" => t.cidr = s.cidr /\ t.pc = "sgip" /\ "curl" \notin t.log
             /\ (s.cidr = "" /\ s.ip # "") =>
                  t.cidr = s.ip \o "/32" /\ t.pc = "sgip" /\ "curl" \notin t.log
             /\ (s.cidr = "" /\ s.ip = "") =>
                  /\ "curl" \in t.log
                  /\ (c.rc = 0 /\ c.words # <<>>) =>
                       t.cidr = c.words[1] \o "/32" /\ t.pc = "sgip"
                  /\ (c.rc = 0 /\ c.words = <<>>) =>
                       t.pc = "done" /\ t.exit = 2 /\ t.cidr = ""]_vars

\* --cidr given next to --ip, and the CIDR is the one given
C3_Witness ==
  \E i \in Invs : /\ st[i].pc = "sgip" /\ st[i].ip = "9.9.9.9"
                  /\ st[i].cidr = "10.0.0.0/8"

\* the address was detected
C3_WitnessDetected ==
  \E i \in Invs : st[i].pc = "sgip" /\ "curl" \in st[i].log /\ st[i].cidr = "7.7.7.7/32"

EcsTags == {"list-clusters", "list-services", "describe-services"}

\* an answer that was read, came without failure, and holds no / several values
Zero(a) == a # NoAnswer /\ a.rc = 0 /\ ~HasValue(a.words)
Several(a) == a # NoAnswer /\ a.rc = 0 /\ HasValue(a.words) /\ Len(a.words) > 1
One(a) == a # NoAnswer /\ a.rc = 0 /\ HasValue(a.words) /\ Len(a.words) = 1

\* C4: with --sg the locator keeps that group and runs no discovery query; else
\* with a target IP it runs the interface query alone and either takes the one
\* group answered or ends the run with exit 2 (or the query itself fails), and
\* never goes on to cluster/service discovery; that discovery runs only with
\* neither; whoever leaves the locator running holds one group id.
C4_LocatorOrder ==
  [][\A i \in Invs :
       LET s == st[i]
           t == st'[i]
           new == t.log \ s.log
       IN  /\ (s.pc = "sgip" /\ t.pc # "sgip") =>
                /\ s.sg_id # "" => t.sg_id = s.sg_id /\ new = {} /\ t.pc = "ecs"
                /\ (s.sg_id = "" /\ s.target_ip # "") =>
                     /\ new = {"eni-groups"}
                     /\ \/ /\ t.pc = "ecs" /\ One(resp'[i].enisg)
                           /\ t.sg_id = resp'[i].enisg.words[1]
                        \/ /\ t.pc = "done" /\ t.exit = 2 /\ ~t.aborted
                           /\ ~One(resp'[i].enisg)
                        \/ t.pc = "done" /\ t.aborted /\ resp'[i].enisg.rc # 0
                /\ (s.sg_id = "" /\ s.target_ip = "") =>
                     new = {} /\ t.pc = "ecs" /\ t.sg_id = ""
           /\ (s.pc = "ecs" /\ t.pc # "ecs") =>
                /\ s.sg_id # "" => t.sg_id = s.sg_id /\ new = {} /\ t.pc = "port"
                /\ new # {} => s.sg_id = "" /\ s.target_ip = "" /\ new \subseteq EcsTags
                /\ (s.sg_id = "" /\ t.pc = "port") =>
                     One(resp'[i].groups) /\ t.sg_id = resp'[i].groups.words[1]
                /\ t.pc \in {"port", "done"}
           /\ new \cap (EcsTags \cup {"eni-groups"}) # {} => s.pc \in {"sgip", "ecs"}
           /\ t.pc \in {"port", "check", "auth"} => t.sg_id # ""]_vars

\* a group found through the interface of the target IP, no cluster query made
C4_Witness ==
  \E i \in Invs : /\ st[i].pc = "port" /\ "eni-groups" \in st[i].log
                  /\ st[i].log \cap EcsTags = {} /\ st[i].sg_id = "sg-2"

\* a group found through the one cluster and its one service
C4_WitnessEcs ==
  \E i \in Invs : /\ st[i].pc = "port" /\ EcsTags \subseteq st[i].log
                  /\ st[i].target_ip = "" /\ st[i].sg_id = "sg-2"

Refused(s, flags) ==
  s.pc = "done" /\ s.exit = 2 /\ \A f \in flags : Mentions(s.out, f)

\* C5: a list of clusters, services, groups or ports that was asked for and came
\* back empty or with several entries ends the run with exit 2 and a message
\* that names the flag to give: --cluster and --sg, --cluster, --service and
\* --sg, --service, --sg, --port.
C5_Disambiguation ==
  \A i \in Invs :
    LET s == st[i]
        r == resp[i]
    IN  /\ "clusters" \in DOMAIN r =>
             /\ Zero(r.clusters) => Refused(s, {"--cluster", "--sg"})
             /\ Several(r.clusters) => Refused(s, {"--cluster"})
             /\ Zero(r.services) => Refused(s, {"--service", "--sg"})
             /\ Several(r.services) => Refused(s, {"--service"})
             /\ (Zero(r.groups) \/ Several(r.groups)) => Refused(s, {"--sg"})
        /\ ("enisg" \in DOMAIN r /\ (Zero(r.enisg) \/ Several(r.enisg))) =>
             Refused(s, {"--sg"})
        /\ ("ports" \in DOMAIN r /\ (Zero(r.ports) \/ Several(r.ports))) =>
             Refused(s, {"--port"})

\* no cluster was found
C5_Witness ==
  \E i \in Invs : /\ "clusters" \in DOMAIN resp[i] /\ Zero(resp[i].clusters)
                  /\ Refused(st[i], {"--cluster", "--sg"})

\* two groups on the interface of the target IP
C5_WitnessTwoGroups ==
  \E i \in Invs : /\ "enisg" \in DOMAIN resp[i] /\ Several(resp[i].enisg)
                  /\ Refused(st[i], {"--sg"})

\* the region scan of lines 86-98 ran and none of its calls failed
ScanOk(r, new) ==
  /\ "describe-regions" \in new
  /\ r.regions.rc = 0
  /\ \A x \in RegionNames : r.eni[x].rc = 0

ScanFailed(r, new) == "describe-regions" \in new /\ ~ScanOk(r, new)

\* the regions in which the scan found an interface with the target IP
Matches(r, new) ==
  IF ScanOk(r, new) THEN {x \in RegionNames : HasValue(r.eni[x].words)} ELSE {}

SgTags ==
  EcsTags \cup {"eni-groups", "sg-ports", "sg-existing", "authorize"}

\* the run ended with exit 2 and the "Region not set" message, before any
\* query about a security group
RegionNotSet(t) ==
  /\ t.pc = "done" /\ t.exit = 2 /\ ~t.aborted
  /\ Mentions(t.out, "Region") /\ Mentions(t.out, "not") /\ Mentions(t.out, "set")
  /\ t.log \cap SgTags = {}

\* the step of lines 84-117 from s to t on the inputs r: the region is the first
\* of --region, the one region of the scan, AWS_REGION, AWS_DEFAULT_REGION and the
\* configured region that has a value; several regions in the scan end the run
\* with exit 2; unset(t) is what happens when none has a value
RegionOrder(s, t, r, new, unset(_)) ==
  LET m == Matches(r, new)
  IN  /\ s.region # "" => t.region = s.region /\ t.pc = "cidr" /\ new = {}
      /\ (s.region = "" /\ Cardinality(m) = 1) => t.region \in m /\ t.pc = "cidr"
      /\ (s.region = "" /\ Cardinality(m) > 1) =>
           /\ s.target_ip # ""
           /\ t.pc = "done" /\ t.exit = 2 /\ ~t.aborted
           /\ Mentions(t.out, "multiple") /\ Mentions(t.out, "--region")
      /\ (s.region = "" /\ m = {}) =>
           /\ r.AWS_REGION # "" => t.region = r.AWS_REGION /\ t.pc = "cidr"
           /\ (r.AWS_REGION = "" /\ r.AWS_DEFAULT_REGION # "") =>
                t.region = r.AWS_DEFAULT_REGION /\ t.pc = "cidr"
           /\ (r.AWS_REGION = "" /\ r.AWS_DEFAULT_REGION = "") =>
                /\ "configure-get" \in new
                /\ r.cfg.words # <<>> => t.region = r.cfg.words[1] /\ t.pc = "cidr"
                /\ r.cfg.words = <<>> => unset(t)

\* C6: the region is the first that has a value of --region, the single region
\* of the target IP, AWS_REGION, AWS_DEFAULT_REGION, the configured region;
\* several regions for the target IP end the run with exit 2; when none has a
\* value the run ends with exit 2 and "Region not set" before any query about a
\* security group.
C6_RegionResolver ==
  [][\A i \in Invs :
       LET s == st[i]
           t == st'[i]
           new == t.log \ s.log
       IN  (s.pc = "region" /\ t.pc # "region" /\ ~ScanFailed(resp'[i], new)) =>
             RegionOrder(s, t, resp'[i], new, RegionNotSet)]_vars

\* the run ended as RegionNotSet says, or "aws configure get region" exited
\* with a status other than 0 and took the script with it, without a message
RegionNotSetOrAborted(t) ==
  \/ RegionNotSet(t)
  \/ /\ t.pc = "done" /\ t.aborted /\ t.exit # 0 /\ t.exit # 2 /\ t.out = <<>>
     /\ t.log \cap SgTags = {}

\* C6 as the script runs: as C6, but where no source has a value the run ends
\* with exit 2 and the message only if "aws configure get region" exits with 0.
C6_RegionResolverAsBuilt ==
  [][\A i \in Invs :
       LET s == st[i]
           t == st'[i]
           new == t.log \ s.log
       IN  (s.pc = "region" /\ t.pc # "region" /\ ~ScanFailed(resp'[i], new)) =>
             RegionOrder(s, t, resp'[i], new, RegionNotSetOrAborted)]_vars

\* the entries of perms that the port query of line 192 selects
Qualifying(perms, proto) ==
  {n \in DOMAIN perms : /\ perms[n].IpProtocol = proto
                        /\ perms[n].FromPort = perms[n].ToPort
                        /\ perms[n].IpRanges # {}}

C7_PortResolverAsBuilt ==
  [][\A i \in Invs :
       LET s == st[i]
           t == st'[i]
           new == t.log \ s.log
           q == Qualifying(sgRules[s.sg_id], s.protocol)
       IN  (s.pc = "port" /\ t.pc # "port") =>
             /\ s.port # "" => t.port = s.port /\ new = {} /\ t.pc = "check"
             /\ (s.port = "" /\ resp'[i].ports.rc = 0) =>
                  /\ Cardinality(q) = 1 =>
                       t.pc = "check" /\ \A n \in q : t.port = sgRules[s.sg_id][n].FromPort
                  /\ Cardinality(q) # 1 => t.pc = "done" /\ t.exit = 2]_vars

\* C8: the step of lines 59-82 keeps a --port and a --target-ip that were
\* given; from http://43.216.215.179:8080/ it takes port 8080 and target IP
\* 43.216.215.179 without asking the resolver, from https://bot.example/ui no
\* port and the first address the resolver answers, from bot.example:9090 port
\* 9090 and the first address the resolver answers.
C8_UrlHandling ==
  [][\A i \in Invs :
       LET s == st[i]
           t == st'[i]
           new == t.log \ s.log
           dns == resp'[i].dns
           byName == (s.target_ip = "") =>
                       /\ new = {"getent"}
                       /\ (dns.rc = 0 /\ dns.words # <<>>) =>
                            t.target_ip = dns.words[1] /\ t.pc = "region"
       IN  (s.pc = "url" /\ t.pc # "url") =>
             /\ s.port # "" => t.port = s.port
             /\ s.target_ip # "" => t.target_ip = s.target_ip /\ new = {}
             /\ s.url = <<>> => t.port = s.port /\ t.target_ip = s.target_ip /\ new = {}
             /\ s.url = UrlQuad =>
                  /\ s.port = "" => t.port = "8080"
                  /\ s.target_ip = "" => t.target_ip = "43.216.215.179" /\ new = {}
             /\ s.url = UrlName => t.port = s.port /\ byName
             /\ s.url = UrlBare => (s.port = "" => t.port = "9090") /\ byName]_vars

\* the URL of the example, with no --port and no --target-ip
C8_Witness ==
  \E i \in Invs : /\ st[i].pc = "region" /\ st[i].url = UrlQuad
                  /\ st[i].port = "8080" /\ st[i].target_ip = "43.216.215.179"
                  /\ "--port" \notin {st[i].argv[k] : k \in DOMAIN st[i].argv}

\* a URL with a port next to --port: the port given is kept
C8_WitnessPortKept ==
  \E i \in Invs : /\ st[i].pc = "region" /\ st[i].url = UrlBare /\ st[i].port = "443"
                  /\ st[i].target_ip = "6.6.6.6"

\* C9: a command line with an unknown argument, or with a flag that takes a
\* value as its last word, ends with exit 2 after the usage text and without
\* a call to the cloud; --help ends with exit 0 after the usage text.
C9_UsageErrors ==
  \A i \in Invs :
    LET s == st[i]
    IN  s.pc # "idle" =>
          /\ (\E a \in BadPrefixes, b \in UnknownTails \cup NoValueTails : s.argv = a \o b) =>
               s.pc = "done" /\ s.exit = 2 /\ s.usage /\ s.log = {}
          /\ (\E a \in BadPrefixes, b \in HelpTails : s.argv = a \o b) =>
               s.pc = "done" /\ s.exit = 0 /\ s.usage /\ s.log = {}

\* C9 as the script runs: an unknown argument ends with exit 2 after the usage
\* text, --help with exit 0 after it, and a flag without its value ends the
\* script at the unset "$2" with the shell's status, not 2, and no usage text.
C9_UsageErrorsAsBuilt ==
  \A i \in Invs :
    LET s == st[i]
    IN  s.pc # "idle" =>
          /\ (\E a \in BadPrefixes, b \in UnknownTails : s.argv = a \o b) =>
               s.pc = "done" /\ s.exit = 2 /\ s.usage /\ s.log = {}
          /\ (\E a \in BadPrefixes, b \in NoValueTails : s.argv = a \o b) =>
               s.pc = "done" /\ s.exit = UnboundExit /\ ~s.usage /\ s.log = {}
          /\ (\E a \in BadPrefixes, b \in HelpTails : s.argv = a \o b) =>
               s.pc = "done" /\ s.exit = 0 /\ s.usage /\ s.log = {}

\* C10: side by side, every invocation still issues the authorize call at most
\* once, and only after its own existence check.
C10_OncePerInvocation ==
  \A i \in Invs : /\ st[i].muts <= 1
                  /\ st[i].muts = 1 => "sg-existing" \in st[i].log /\ st[i].pc = "done"

\* two invocations with the same (group, protocol, port, CIDR), started on a
\* group without the rule, both passed the check and both issued the call
C10_Witness ==
  \E i, j \in Invs :
    /\ i # j /\ Tuple(st[i]) = Tuple(st[j])
    /\ st[i].muts = 1 /\ st[j].muts = 1
    /\ \A k \in {i, j} :
         RulesFor(sgAtStart[k][st[k].sg_id], st[k].protocol, st[k].port, st[k].cidr) = {}

====
